---- MODULE Spec2Model ----
(***************************************************************************)
(* A model of generate_sdk_samples.py: the string helpers it relies on,    *)
(* the pure functions clean_filename, parse_endpoint_path,                 *)
(* determine_sdk_method and generate_sdk_code, and the batch driver main   *)
(* with its pool of process_file tasks writing pages to the output tree.   *)
(* Text is modelled by TLA+ strings, character by character.               *)
(***************************************************************************)
EXTENDS Integers, Sequences, FiniteSets, TLC

(***************************************************************************)
(* Bounds of the model.                                                    *)
(***************************************************************************)
MaxSegs == 2
MaxFrags == 3
MaxBodyKeys == 2
NumWorkers == 2

(***************************************************************************)
(* Python str operations, on TLA+ strings.                                 *)
(***************************************************************************)
Char(s, i) == SubSeq(s, i, i)

Min(S) == CHOOSE m \in S : \A n \in S : m <= n

\* str.find(sub, from): the least index >= from where sub occurs, 0 if none
Find(sub, s, from) ==
    LET idx == {i \in from..(Len(s) - Len(sub) + 1) :
                   SubSeq(s, i, i + Len(sub) - 1) = sub}
    IN  IF idx = {} THEN 0 ELSE Min(idx)

\* sub in s
Contains(sub, s) == Find(sub, s, 1) # 0

StartsWith(s, prefix) ==
    Len(prefix) <= Len(s) /\ SubSeq(s, 1, Len(prefix)) = prefix

EndsWith(s, suffix) ==
    Len(suffix) <= Len(s) /\ SubSeq(s, Len(s) - Len(suffix) + 1, Len(s)) = suffix

\* s.split(sep), for a non-empty separator
RECURSIVE Split(_, _)
Split(s, sep) ==
    LET i == Find(sep, s, 1)
    IN  IF i = 0 THEN <<s>>
        ELSE <<SubSeq(s, 1, i - 1)>> \o Split(SubSeq(s, i + Len(sep), Len(s)), sep)

\* sep.join(parts)
RECURSIVE Join(_, _)
Join(sep, parts) ==
    IF parts = <<>> THEN ""
    ELSE IF Len(parts) = 1 THEN parts[1]
    ELSE parts[1] \o sep \o Join(sep, Tail(parts))

\* s.replace(old, new): every non-overlapping occurrence, left to right;
\* an empty old matches before every character and at the end
RECURSIVE Replace(_, _, _)
Replace(s, old, new) ==
    IF old = ""
    THEN IF s = "" THEN new
         ELSE new \o Char(s, 1) \o Replace(SubSeq(s, 2, Len(s)), old, new)
    ELSE LET i == Find(old, s, 1)
         IN  IF i = 0 THEN s
             ELSE SubSeq(s, 1, i - 1) \o new
                  \o Replace(SubSeq(s, i + Len(old), Len(s)), old, new)

\* s.strip(ch) for a one-character ch
RECURSIVE LStrip(_, _)
LStrip(s, ch) ==
    IF s # "" /\ Char(s, 1) = ch THEN LStrip(SubSeq(s, 2, Len(s)), ch) ELSE s

RECURSIVE RStrip(_, _)
RStrip(s, ch) ==
    IF s # "" /\ Char(s, Len(s)) = ch THEN RStrip(SubSeq(s, 1, Len(s) - 1), ch) ELSE s

Strip(s, ch) == RStrip(LStrip(s, ch), ch)

UpperCase == "ABCDEFGHIJKLMNOPQRSTUVWXYZ"
LowerCase == "abcdefghijklmnopqrstuvwxyz"

LowerChar(c) ==
    LET i == Find(c, UpperCase, 1)
    IN  IF i = 0 THEN c ELSE Char(LowerCase, i)

\* s.lower()
RECURSIVE Lower(_)
Lower(s) ==
    IF s = "" THEN "" ELSE LowerChar(Char(s, 1)) \o Lower(SubSeq(s, 2, Len(s)))

(***************************************************************************)
(* clean_filename                                                          *)
(***************************************************************************)
\* re.search(r'{[^}]+}(.*)', s): the leftmost '{' followed by at least one
\* character other than '}' and then '}'; group 1 runs to the end of the line
ReSearch(s) ==
    LET starts == {i \in 1..Len(s) :
                      /\ Char(s, i) = "{"
                      /\ Find("}", s, i + 1) >= i + 2}
    IN  IF starts = {} THEN [matched |-> FALSE, group1 |-> ""]
        ELSE LET i == Min(starts)
                 j == Find("}", s, i + 1)
                 nl == Find("\n", s, j + 1)
                 e == IF nl = 0 THEN Len(s) ELSE nl - 1
             IN  [matched |-> TRUE, group1 |-> SubSeq(s, j + 1, e)]

clean_filename(filename) ==
    LET f1 == IF Contains("actions", filename)
              THEN LET parts == Split(filename, "actions")
                   IN  parts[1] \o Split(parts[2], "_")[1]
              ELSE filename
        m == ReSearch(f1)
    IN  IF m.matched THEN Replace(f1, m.group1, "") ELSE f1

(***************************************************************************)
(* parse_endpoint_path                                                     *)
(***************************************************************************)
IsParamPart(part) == Contains("{", part) /\ Contains("}", part)

\* part[1:-1]
Inner(part) == SubSeq(part, 2, Len(part) - 1)

\* params is a dict: insertion-ordered, a repeated key keeps its first place
RECURSIVE DictKeys(_, _)
DictKeys(names, seen) ==
    IF names = <<>> THEN <<>>
    ELSE IF names[1] \in seen THEN DictKeys(Tail(names), seen)
    ELSE <<names[1]>> \o DictKeys(Tail(names), seen \cup {names[1]})

parse_endpoint_path(path) ==
    LET parts == Split(Strip(path, "/"), "/")
        resource_parts == [i \in 1..Len(parts) |->
                              IF IsParamPart(parts[i]) THEN Inner(parts[i]) ELSE parts[i]]
        names == [i \in 1..Len(SelectSeq(parts, IsParamPart)) |->
                     Inner(SelectSeq(parts, IsParamPart)[i])]
    IN  [resource_parts |-> resource_parts, params |-> DictKeys(names, {})]

(***************************************************************************)
(* determine_sdk_method                                                    *)
(***************************************************************************)
HTTP_TO_SDK(verb) ==
    CASE verb = "get"    -> <<"retrieve", "list">>
      [] verb = "post"   -> <<"create">>
      [] verb = "patch"  -> <<"update">>
      [] verb = "put"    -> <<"update">>
      [] verb = "delete" -> <<"del">>
      [] OTHER           -> <<>>

\* the list check made on the verb as given, not on its lower-cased form
determine_sdk_method_nolower(http_method, endpoint_path) ==
    LET possible_methods == HTTP_TO_SDK(Lower(http_method))
        segs == Split(endpoint_path, "/")
    IN  IF http_method = "get"
           /\ ~ \E i \in 1..Len(segs) : Contains("{", segs[i])
        THEN "list"
        ELSE IF possible_methods # <<>> THEN possible_methods[1] ELSE "create"

determine_sdk_method(http_method, endpoint_path) ==
    LET possible_methods == HTTP_TO_SDK(Lower(http_method))
        segs == Split(endpoint_path, "/")
    IN  IF Lower(http_method) = "get"
           /\ ~ \E i \in 1..Len(segs) : Contains("{", segs[i])
        THEN "list"
        ELSE IF possible_methods # <<>> THEN possible_methods[1] ELSE "create"

(***************************************************************************)
(* JSON values as json.loads returns them: tagged records.  A dict is the  *)
(* sequence of its <<key, value>> items in insertion order.                *)
(***************************************************************************)
JStr(x) == [t |-> "str", s |-> x]
JNum(x) == [t |-> "int", n |-> x]
JBool(x) == [t |-> "bool", b |-> x]
JNull == [t |-> "NoneType"]
JList(x) == [t |-> "list", l |-> x]
JObj(x) == [t |-> "dict", o |-> x]

\* bool(value)
Truthy(v) ==
    CASE v.t = "str"      -> v.s # ""
      [] v.t = "int"      -> v.n # 0
      [] v.t = "bool"     -> v.b
      [] v.t = "NoneType" -> FALSE
      [] v.t = "list"     -> v.l # <<>>
      [] v.t = "dict"     -> v.o # <<>>

\* dict.get(key, default)
DictGet(items, key, default) ==
    LET hits == {i \in 1..Len(items) : items[i][1] = key}
    IN  IF hits = {} THEN default ELSE items[Min(hits)][2]

\* the message of the AttributeError raised by value.attr
AttributeError(v, attr) ==
    "'" \o v.t \o "' object has no attribute '" \o attr \o "'"

\* str(value) of a scalar, as an f-string renders it
RECURSIVE NatStr(_)
NatStr(n) ==
    IF n < 10 THEN Char("0123456789", n + 1)
    ELSE NatStr(n \div 10) \o Char("0123456789", (n % 10) + 1)

PyStr(v) ==
    CASE v.t = "str"      -> v.s
      [] v.t = "int"      -> IF v.n < 0 THEN "-" \o NatStr(0 - v.n) ELSE NatStr(v.n)
      [] v.t = "bool"     -> IF v.b THEN "True" ELSE "False"
      [] v.t = "NoneType" -> "None"
      [] v.t = "list"     -> "[]"
      [] v.t = "dict"     -> "{}"

\* json.loads(sample_content): the decoded value, or the decoder's error
json_loads(sample_content) ==
    IF sample_content.json
    THEN [raised |-> FALSE, value |-> sample_content.value, err |-> ""]
    ELSE [raised |-> TRUE, value |-> JNull, err |-> sample_content.err]

(***************************************************************************)
(* generate_sdk_code                                                       *)
(***************************************************************************)
Raise(msg) == [raised |-> TRUE, err |-> msg, text |-> ""]

\* every body value rendered by str(), the textual ones unquoted
BodyLine_unquoted(item) == "    " \o item[1] \o "=" \o PyStr(item[2])

BodyLine(item) ==
    IF item[2].t = "str"
    THEN "    " \o item[1] \o "='" \o item[2].s \o "'"
    ELSE "    " \o item[1] \o "=" \o PyStr(item[2])

\* lines 151-198: the rendering once method, path and body are extracted
RenderLines(http_method, endpoint_path, request_body) ==
    LET parsed == parse_endpoint_path(endpoint_path)
        resource_parts == parsed.resource_parts
        params == parsed.params
        sdk_method == determine_sdk_method(http_method, endpoint_path)
        NotBrace(part) == ~ StartsWith(part, "{")
        resource_path == Join("_", SelectSeq(resource_parts, NotBrace))
        param_defs == [i \in 1..Len(params) |->
                          params[i] \o " = 'your_" \o params[i] \o "'"]
        body_params == IF Truthy(request_body)
                       THEN [i \in 1..Len(request_body.o) |-> BodyLine(request_body.o[i])]
                       ELSE <<>>
        body_lines == IF body_params # <<>>
                      THEN <<"params = {">> \o body_params \o <<"}">>
                      ELSE <<>>
        resource_var == Replace(resource_path, "-", "_")
        param_str == Join(", ", [i \in 1..Len(params) |-> params[i] \o "=" \o params[i]])
        head == "response = telnyx." \o resource_var \o "." \o sdk_method \o "("
        call == IF resource_path # ""
                THEN IF params # <<>>
                     THEN IF Truthy(request_body)
                          THEN <<head \o param_str \o ", **params)">>
                          ELSE <<head \o param_str \o ")">>
                     ELSE IF Truthy(request_body)
                          THEN <<head \o "**params)">>
                          ELSE <<head \o ")">>
                ELSE <<>>
    IN  param_defs \o body_lines \o call \o <<"print(response)">>

\* lines 143-198, the body of the try: a result or the exception raised
TrySdkCode(sample_content) ==
    LET loaded == json_loads(sample_content)
        sample_data == loaded.value
        method_val == DictGet(sample_data.o, "method", JStr(""))
        path_val == DictGet(sample_data.o, "path", JStr(""))
        request_val == DictGet(sample_data.o, "request", JObj(<<>>))
        request_body == DictGet(request_val.o, "body", JObj(<<>>))
    IN  IF loaded.raised THEN Raise(loaded.err)
        ELSE IF sample_data.t # "dict" THEN Raise(AttributeError(sample_data, "get"))
        ELSE IF method_val.t # "str" THEN Raise(AttributeError(method_val, "lower"))
        ELSE IF request_val.t # "dict" THEN Raise(AttributeError(request_val, "get"))
        ELSE IF path_val.t # "str" THEN Raise(AttributeError(path_val, "strip"))
        ELSE IF Truthy(request_body) /\ request_body.t # "dict"
             THEN Raise(AttributeError(request_body, "items"))
        ELSE [raised |-> FALSE, err |-> "",
              text |-> Join("\n", RenderLines(Lower(method_val.s), path_val.s, request_body))]

generate_sdk_code(sample_content, reference_content) ==
    LET r == TrySdkCode(sample_content)
    IN  IF r.raised THEN "# Error generating SDK code: " \o r.err ELSE r.text

(***************************************************************************)
(* Module constants and os.path helpers.                                   *)
(***************************************************************************)
SAMPLES_DIR == "Samples"
SDK_DIR == "SDK/python_v4"
STANDARD_HEADER ==
    "---\nlabel: Python SDK\nlang: Python\n---\nimport telnyx\ntelnyx.api_key = \"YOUR_API_KEY\"\n"

Max(S) == CHOOSE m \in S : \A n \in S : m >= n

\* os.path.relpath(path, start) for a path that glob found under start
RelPath(path, start) ==
    IF StartsWith(path, start \o "/") THEN SubSeq(path, Len(start) + 2, Len(path)) ELSE path

Basename(path) == LET parts == Split(path, "/") IN parts[Len(parts)]

Dirname(path) ==
    LET parts == Split(path, "/") IN Join("/", SubSeq(parts, 1, Len(parts) - 1))

\* os.path.splitext(name)[0]: the name without its last extension
SplitextRoot(name) ==
    LET dots == {i \in 2..Len(name) : Char(name, i) = "."}
    IN  IF dots = {} THEN name ELSE SubSeq(name, 1, Max(dots) - 1)

PathJoin(a, b) ==
    IF StartsWith(b, "/") THEN b
    ELSE IF a = "" \/ EndsWith(a, "/") THEN a \o b
    ELSE a \o "/" \o b

\* lines 82-89 of process_file: the output file of a sample file
OutputFile(file_path) ==
    LET relative_path == RelPath(file_path, SAMPLES_DIR)
        cleaned_filename == clean_filename(SplitextRoot(Basename(relative_path)))
        output_dir == PathJoin(SDK_DIR, Dirname(relative_path))
    IN  PathJoin(output_dir, cleaned_filename \o ".md")

\* line 103: the page written for a snippet
Page(sdk_code) == STANDARD_HEADER \o "\n\n" \o sdk_code

(***************************************************************************)
(* Inputs of the pure functions.                                           *)
(***************************************************************************)
Verbs == {"get", "GET", "Get", "post", "Post", "put", "patch", "PATCH",
          "delete", "DELETE", "head", "options", ""}

Segs == {"messages", "phone-numbers", "{id}", "{msg_id}", "v{id}x", "}id{",
         "{id", "id}", "actions", ""}

SeqsUpTo(S, n) == UNION {[1..k -> S] : k \in 1..n}

Paths == {"", "/"} \cup
         {"/" \o Join("/", ss) \o post : ss \in SeqsUpTo(Segs, MaxSegs), post \in {"", "/"}}

Fragments == {"act", "ions", "actions", "_", "{id}", "x", "}", "a"}

Filenames == {Join("", fs) : fs \in SeqsUpTo(Fragments, MaxFrags)}

\* the "method" values of a sample; Absent stands for a missing key
Absent == [t |-> "absent"]
SampleMethods == {Absent} \cup {JStr(m) : m \in {"get", "POST", "delete", "put"}}

GenSegs == {"messages", "phone-numbers", "{id}", "{msg_id}", "v{id}x", ""}

GenPaths == {Absent, JStr(""), JStr("/")} \cup
            {JStr("/" \o Join("/", ss) \o post) :
                ss \in SeqsUpTo(GenSegs, MaxSegs), post \in {"", "/"}}

BodyItems == {<<"to", JStr("+1555")>>, <<"n", JNum(30)>>, <<"flag", JBool(TRUE)>>,
              <<"x", JNull>>}

BodyDicts == {<<>>} \cup
             {d \in SeqsUpTo(BodyItems, MaxBodyKeys) :
                 \A i, j \in 1..Len(d) : i # j => d[i][1] # d[j][1]}

\* the "request" values of a sample
Requests == {Absent} \cup {JObj(<<>>)} \cup {JObj(<< <<"body", JObj(d)>> >>) : d \in BodyDicts}

Field(key, val) == IF val.t = "absent" THEN <<>> ELSE << <<key, val>> >>

SampleObject(m, p, r) ==
    JObj(Field("method", m) \o Field("path", p) \o Field("request", r))

Json(v) == [json |-> TRUE, value |-> v, err |-> ""]
NotJson(e) == [json |-> FALSE, value |-> JNull, err |-> e]

\* sample files that are not JSON, not an object, or carry a body that is no mapping
JSONDecodeError == "Expecting value: line 1 column 1 (char 0)"

OddContents ==
    {NotJson(JSONDecodeError),
     Json(JList(<<>>)),
     Json(SampleObject(JStr("post"), JStr("/messages"),
                       JObj(<< <<"body", JList(<<JNum(1)>>)>> >>)))}

(***************************************************************************)
(* The sample tree of a batch run.                                         *)
(***************************************************************************)
\* what glob can find under SAMPLES_DIR; the first two share a cleaned name
SampleFileNames ==
    <<"Samples/calls/call_{id}_answer.json",
      "Samples/calls/call_{id}_hangup.json",
      "Samples/messages/send.json">>

FileIds == 1..Len(SampleFileNames)

SampleList == Json(SampleObject(JStr("get"), JStr("/messages"), Absent))
SampleCreate ==
    Json(SampleObject(JStr("post"), JStr("/messages"),
                      JObj(<< <<"body", JObj(<< <<"to", JStr("+1555")>> >>)>> >>)))

FileContents == {SampleList, SampleCreate, NotJson(JSONDecodeError)}

Unread == NotJson("")

\* a sample file: absent, unreadable, readable with an output that cannot be
\* opened for writing, or readable and writable
FileStates ==
    {[exists |-> FALSE, readable |-> FALSE, writable |-> FALSE, content |-> Unread],
     [exists |-> TRUE, readable |-> FALSE, writable |-> TRUE, content |-> Unread],
     [exists |-> TRUE, readable |-> TRUE, writable |-> FALSE, content |-> SampleList]}
    \cup {[exists |-> TRUE, readable |-> TRUE, writable |-> TRUE, content |-> c] :
             c \in FileContents}

\* the output file of each sample file, and the set of output files
output_file == [i \in FileIds |-> OutputFile(SampleFileNames[i])]
OutPaths == {output_file[i] : i \in FileIds}

\* create_reference_content(): the corpus, read once and never used by the renderer
REFERENCE_CONTENT == "reference"

\* generate_sdk_code on each content a sample file can hold
sdk_code_of == [c \in FileContents |-> generate_sdk_code(c, REFERENCE_CONTENT)]

(***************************************************************************)
(* State.                                                                  *)
(***************************************************************************)
VARIABLES
    fn,       \* the function applied
    args,     \* its arguments
    ret,      \* the values it returned, in order
    files,    \* the sample tree: file id -> file state
    main_pc,  \* where main is
    counter,  \* main's counter
    futures,  \* main's futures: the file ids submitted, in order
    wait_i,   \* the index of the future main waits for
    submits,  \* file id -> times submitted in this run
    task,     \* file id -> the state of its process_file task
    fs,       \* the output tree: path -> [exists, data]
    wlog,     \* the tasks whose write completed, in order of completion
    run,      \* the number of the run of main
    fs1       \* the output tree as the first run left it

fnvars == <<fn, args, ret>>
batchvars == <<files, main_pc, counter, futures, wait_i, submits, task, fs, wlog, run, fs1>>
vars == <<fn, args, ret, files, main_pc, counter, futures, wait_i, submits, task, fs,
          wlog, run, fs1>>

NoTask == [status |-> "none", pc |-> "-", sample_content |-> Unread, sdk_code |-> "",
           buf |-> "", result |-> "None"]

NoFile == [exists |-> FALSE, data |-> ""]

InitFn ==
    /\ ret = <<>>
    /\ \/ /\ fn = "determine_sdk_method"
          /\ \E v \in Verbs, p \in Paths : args = [http_method |-> v, endpoint_path |-> p]
       \/ /\ fn = "parse_endpoint_path"
          /\ \E p \in Paths : args = [path |-> p]
       \/ /\ fn = "clean_filename"
          /\ \E f \in Filenames : args = [filename |-> f]
       \/ /\ fn = "generate_sdk_code"
          /\ \E m \in SampleMethods, p \in GenPaths, r \in Requests :
                args = [method |-> m, path |-> p, request |-> r,
                        sample_content |-> Json(SampleObject(m, p, r))]
       \/ /\ fn = "generate_sdk_code"
          /\ \E c \in OddContents :
                args = [method |-> Absent, path |-> Absent, request |-> Absent,
                        sample_content |-> c]
    /\ files = [i \in FileIds |-> CHOOSE f \in FileStates : ~ f.exists]
    /\ main_pc = "idle"
    /\ counter = 0
    /\ futures = <<>>
    /\ wait_i = 1
    /\ submits = [i \in FileIds |-> 0]
    /\ task = [i \in FileIds |-> NoTask]
    /\ fs = [o \in OutPaths |-> NoFile]
    /\ wlog = <<>>
    /\ run = 1
    /\ fs1 = [o \in OutPaths |-> NoFile]

DetermineSdkMethod ==
    /\ fn = "determine_sdk_method" /\ ret = <<>>
    /\ ret' = <<determine_sdk_method(args.http_method, args.endpoint_path)>>
    /\ UNCHANGED <<fn, args>>
    /\ UNCHANGED batchvars

ParseEndpointPath ==
    /\ fn = "parse_endpoint_path" /\ ret = <<>>
    /\ ret' = <<parse_endpoint_path(args.path)>>
    /\ UNCHANGED <<fn, args>>
    /\ UNCHANGED batchvars

\* clean_filename applied to the name, then to its own result
CleanFilename ==
    /\ fn = "clean_filename" /\ Len(ret) < 2
    /\ ret' = Append(ret, clean_filename(IF ret = <<>> THEN args.filename ELSE ret[Len(ret)]))
    /\ UNCHANGED <<fn, args>>
    /\ UNCHANGED batchvars

GenerateSdkCode ==
    /\ fn = "generate_sdk_code" /\ ret = <<>>
    /\ ret' = <<generate_sdk_code(args.sample_content, "")>>
    /\ UNCHANGED <<fn, args>>
    /\ UNCHANGED batchvars

NextFn == DetermineSdkMethod \/ ParseEndpointPath \/ CleanFilename \/ GenerateSdkCode

SpecFn == InitFn /\ [][NextFn]_vars

(***************************************************************************)
(* The batch driver: main, the worker pool and the process_file tasks.     *)
(***************************************************************************)
\* glob.glob(SAMPLES_DIR/**/*.json): the sample files that exist
sample_files == SelectSeq([i \in FileIds |-> i], LAMBDA i : files[i].exists)

Terminal(t) == task[t].status \in {"done", "failed"}
Running == {t \in FileIds : task[t].status = "running"}

Init ==
    /\ fn = "none"
    /\ args = <<>>
    /\ ret = <<>>
    /\ files \in [FileIds -> FileStates]
    /\ main_pc = "submit"
    /\ counter = 0
    /\ futures = <<>>
    /\ wait_i = 1
    /\ submits = [i \in FileIds |-> 0]
    /\ task = [i \in FileIds |-> NoTask]
    /\ fs = [o \in OutPaths |-> NoFile]
    /\ wlog = <<>>
    /\ run = 1
    /\ fs1 = [o \in OutPaths |-> NoFile]

\* lines 218-222: one iteration of the submission loop
Submit ==
    /\ main_pc = "submit"
    /\ Len(futures) < Len(sample_files)
    /\ LET t == sample_files[Len(futures) + 1]
       IN  /\ counter' = counter + 1
           /\ futures' = Append(futures, t)
           /\ submits' = [submits EXCEPT ![t] = @ + 1]
           /\ task' = [task EXCEPT ![t] = [NoTask EXCEPT !.status = "pending"]]
    /\ UNCHANGED <<files, main_pc, wait_i, fs, wlog, run, fs1>>
    /\ UNCHANGED fnvars

\* line 218: the submission loop ends
EndSubmit ==
    /\ main_pc = "submit"
    /\ Len(futures) = Len(sample_files)
    /\ main_pc' = "wait"
    /\ UNCHANGED <<files, counter, futures, wait_i, submits, task, fs, wlog, run, fs1>>
    /\ UNCHANGED fnvars

\* lines 225-228: future.result() returns once the task has ended
WaitResult ==
    /\ main_pc = "wait"
    /\ wait_i <= Len(futures)
    /\ Terminal(futures[wait_i])
    /\ wait_i' = wait_i + 1
    /\ UNCHANGED <<files, main_pc, counter, futures, submits, task, fs, wlog, run, fs1>>
    /\ UNCHANGED fnvars

\* line 216: leaving the with block shuts the pool down, waiting for its tasks
Shutdown ==
    /\ main_pc = "wait"
    /\ wait_i > Len(futures)
    /\ \A t \in FileIds : task[t].status # "none" => Terminal(t)
    /\ main_pc' = "returned"
    /\ UNCHANGED <<files, counter, futures, wait_i, submits, task, fs, wlog, run, fs1>>
    /\ UNCHANGED fnvars

\* the batch is run again on the same sample tree and corpus
Rerun ==
    /\ main_pc = "returned"
    /\ run = 1
    /\ run' = 2
    /\ fs1' = fs
    /\ main_pc' = "submit"
    /\ counter' = 0
    /\ futures' = <<>>
    /\ wait_i' = 1
    /\ submits' = [i \in FileIds |-> 0]
    /\ task' = [i \in FileIds |-> NoTask]
    /\ wlog' = <<>>
    /\ UNCHANGED <<files, fs>>
    /\ UNCHANGED fnvars

\* a free worker takes the oldest pending task; lines 78-92 (counter never
\* exceeds MAX_FILES, which is infinite; makedirs creates the directory)
StartTask(t) ==
    /\ task[t].status = "pending"
    /\ Cardinality(Running) < NumWorkers
    /\ \A i \in 1..Len(futures) :
          task[futures[i]].status = "pending" =>
              \E j \in 1..i : futures[j] = t
    /\ task' = [task EXCEPT ![t].status = "running", ![t].pc = "read"]
    /\ UNCHANGED <<files, main_pc, counter, futures, wait_i, submits, fs, wlog, run, fs1>>
    /\ UNCHANGED fnvars

\* lines 108-110: the exception is caught and the task returns None
Except(t) == [task EXCEPT ![t].status = "failed", ![t].pc = "-", ![t].result = "None"]

\* lines 95-96
ReadSample(t) ==
    /\ task[t].status = "running" /\ task[t].pc = "read"
    /\ files[t].readable
    /\ task' = [task EXCEPT ![t].sample_content = files[t].content, ![t].pc = "generate"]
    /\ UNCHANGED <<files, main_pc, counter, futures, wait_i, submits, fs, wlog, run, fs1>>
    /\ UNCHANGED fnvars

\* a failed read put back in the queue to be tried again
ReadFails_retry(t) ==
    /\ task[t].status = "running" /\ task[t].pc = "read"
    /\ ~ files[t].readable
    /\ submits[t] < 3
    /\ submits' = [submits EXCEPT ![t] = @ + 1]
    /\ task' = [task EXCEPT ![t] = [NoTask EXCEPT !.status = "pending"]]
    /\ UNCHANGED <<files, main_pc, counter, futures, wait_i, fs, wlog, run, fs1>>
    /\ UNCHANGED fnvars

\* line 95 raises: the sample file cannot be read
ReadFails(t) ==
    /\ task[t].status = "running" /\ task[t].pc = "read"
    /\ ~ files[t].readable
    /\ task' = Except(t)
    /\ UNCHANGED <<files, main_pc, counter, futures, wait_i, submits, fs, wlog, run, fs1>>
    /\ UNCHANGED fnvars

\* the renderer's exception reaching process_file, whose handler returns None
raises_of == [c \in FileContents |-> TrySdkCode(c).raised]

GenerateCode_nocatch(t) ==
    /\ task[t].status = "running" /\ task[t].pc = "generate"
    /\ task' = IF raises_of[task[t].sample_content]
               THEN Except(t)
               ELSE [task EXCEPT ![t].sdk_code = sdk_code_of[task[t].sample_content],
                                 ![t].pc = "open"]
    /\ UNCHANGED <<files, main_pc, counter, futures, wait_i, submits, fs, wlog, run, fs1>>
    /\ UNCHANGED fnvars

\* line 99
GenerateCode(t) ==
    /\ task[t].status = "running" /\ task[t].pc = "generate"
    /\ task' = [task EXCEPT
                   ![t].sdk_code = sdk_code_of[task[t].sample_content],
                   ![t].pc = "open"]
    /\ UNCHANGED <<files, main_pc, counter, futures, wait_i, submits, fs, wlog, run, fs1>>
    /\ UNCHANGED fnvars

\* line 102: open(output_file, 'w') creates or truncates the file
OpenOutput(t) ==
    /\ task[t].status = "running" /\ task[t].pc = "open"
    /\ files[t].writable
    /\ fs' = [fs EXCEPT ![output_file[t]] = [exists |-> TRUE, data |-> ""]]
    /\ task' = [task EXCEPT ![t].pc = "write"]
    /\ UNCHANGED <<files, main_pc, counter, futures, wait_i, submits, wlog, run, fs1>>
    /\ UNCHANGED fnvars

\* line 102 raises: the output file cannot be opened
OpenFails(t) ==
    /\ task[t].status = "running" /\ task[t].pc = "open"
    /\ ~ files[t].writable
    /\ task' = Except(t)
    /\ UNCHANGED <<files, main_pc, counter, futures, wait_i, submits, fs, wlog, run, fs1>>
    /\ UNCHANGED fnvars

\* line 103: f.write puts the page in the file object's buffer
WriteOutput(t) ==
    /\ task[t].status = "running" /\ task[t].pc = "write"
    /\ task' = [task EXCEPT ![t].buf = Page(task[t].sdk_code), ![t].pc = "close"]
    /\ UNCHANGED <<files, main_pc, counter, futures, wait_i, submits, fs, wlog, run, fs1>>
    /\ UNCHANGED fnvars

\* the bytes of data written at offset 0 over the bytes already in the file
Overwrite(old, data) == data \o SubSeq(old, Len(data) + 1, Len(old))

\* leaving the with block of line 102 flushes the buffer at the task's own
\* file offset and closes the file; lines 105-106 return the output path
CloseOutput(t) ==
    /\ task[t].status = "running" /\ task[t].pc = "close"
    /\ fs' = [fs EXCEPT ![output_file[t]] =
                           [exists |-> TRUE, data |-> Overwrite(@.data, task[t].buf)]]
    /\ wlog' = Append(wlog, t)
    /\ task' = [task EXCEPT ![t].status = "done", ![t].pc = "-",
                            ![t].result = output_file[t]]
    /\ UNCHANGED <<files, main_pc, counter, futures, wait_i, submits, run, fs1>>
    /\ UNCHANGED fnvars

MainStep == Submit \/ EndSubmit \/ WaitResult \/ Shutdown

TaskStep(t) ==
    \/ StartTask(t) \/ ReadSample(t) \/ ReadFails(t) \/ GenerateCode(t)
    \/ OpenOutput(t) \/ OpenFails(t) \/ WriteOutput(t) \/ CloseOutput(t)

Next == MainStep \/ Rerun \/ \E t \in FileIds : TaskStep(t)

Spec == Init /\ [][Next]_vars

\* one run of main, the main process and every worker process being scheduled
NextRun == MainStep \/ \E t \in FileIds : TaskStep(t)

FairSpec ==
    /\ Init
    /\ [][NextRun]_vars
    /\ WF_vars(MainStep)
    /\ \A t \in FileIds : WF_vars(TaskStep(t))


(***************************************************************************)
(* Properties of the pure functions, stated for SpecFn.                    *)
(***************************************************************************)
Returned(f) == fn = f /\ ret # <<>>

\* the segments of a path template and the ones wrapped in braces
Segments(path) == Split(Strip(path, "/"), "/")
Wrapped(seg) == Len(seg) >= 2 /\ Char(seg, 1) = "{" /\ Char(seg, Len(seg)) = "}"
BraceFree(seg) == ~ Contains("{", seg) /\ ~ Contains("}", seg)
WellFormed(path) ==
    LET segs == Segments(path)
    IN  \A i \in 1..Len(segs) :
           \/ BraceFree(segs[i])
           \/ Wrapped(segs[i]) /\ BraceFree(Inner(segs[i]))
WrappedNames(path) ==
    LET w == SelectSeq(Segments(path), Wrapped)
    IN  DictKeys([i \in 1..Len(w) |-> Inner(w[i])], {})

\* the lines of a snippet and, among them, the invocation lines
LinesOf(code) == Split(code, "\n")
CallPrefix == "response = telnyx."
IsCall(line) == StartsWith(line, CallPrefix)
IsError(code) == StartsWith(code, "# Error generating SDK code: ")

\* C1: determine_sdk_method returns 'list' for a get (in any letter case) on a
\* path none of whose segments holds a placeholder brace, otherwise 'retrieve'
\* for get, 'create' for post, 'update' for put and patch, 'del' for delete and
\* 'create' for any other verb; a get on a path with exactly one {param}
\* segment gives 'retrieve'; a value is always returned.
C1_Reference(verb, path) ==
    CASE Lower(verb) = "get" /\ ~ Contains("{", path) -> "list"
      [] Lower(verb) = "get" /\ Contains("{", path)   -> "retrieve"
      [] Lower(verb) = "post"                         -> "create"
      [] Lower(verb) \in {"put", "patch"}             -> "update"
      [] Lower(verb) = "delete"                       -> "del"
      [] OTHER                                        -> "create"

C1_MethodResolution ==
    Returned("determine_sdk_method") =>
        /\ ret[1] = C1_Reference(args.http_method, args.endpoint_path)
        /\ ret[1] \in {"list", "retrieve", "create", "update", "del"}
        /\ (/\ Lower(args.http_method) = "get"
            /\ WellFormed(args.endpoint_path)
            /\ Len(SelectSeq(Segments(args.endpoint_path), Wrapped)) = 1) => ret[1] = "retrieve"
        /\ (/\ Lower(args.http_method) = "get"
            /\ \A i \in 1..Len(Segments(args.endpoint_path)) :
                  BraceFree(Segments(args.endpoint_path)[i])) => ret[1] = "list"

C1_Witness ==
    /\ Returned("determine_sdk_method")
    /\ args.http_method = "GET"
    /\ args.endpoint_path = "/messages/{id}"
    /\ ret[1] = "retrieve"

\* C2: clean_filename is idempotent: applied to its own result it returns
\* that result.
C2_Idempotent ==
    (fn = "clean_filename" /\ Len(ret) = 2) => ret[2] = ret[1]

\* C9: parse_endpoint_path treats a segment as a parameter exactly when the
\* whole segment is wrapped in braces, recording its name; every other
\* segment, malformed braces included, stays a literal token unchanged and
\* adds nothing to the parameter mapping.
C9_WrappedOnly ==
    Returned("parse_endpoint_path") =>
        LET segs == Segments(args.path)
        IN  /\ Len(ret[1].resource_parts) = Len(segs)
            /\ \A i \in 1..Len(segs) :
                  ret[1].resource_parts[i] = IF Wrapped(segs[i]) THEN Inner(segs[i]) ELSE segs[i]
            /\ ret[1].params = WrappedNames(args.path)

\* the sample's path and request body, as the renderer extracts them
ArgPath == IF args.path.t = "str" THEN args.path.s ELSE ""
ArgBody == IF args.request.t = "dict"
           THEN DictGet(args.request.o, "body", JObj(<<>>)).o
           ELSE <<>>
Rendered == Returned("generate_sdk_code") /\ ~ IsError(ret[1])
CallLines(ls) == {i \in 1..Len(ls) : IsCall(ls[i])}

\* the object named by an invocation line: the text between "telnyx." and "."
CallObject(line) == Split(SubSeq(line, Len(CallPrefix) + 1, Len(line)), ".")[1]

NotWrapped(seg) == ~ Wrapped(seg)
LiteralIdentifier(path) ==
    Replace(Join("_", SelectSeq(Segments(path), NotWrapped)), "-", "_")

\* C5: the object of the invocation line is built from the literal path
\* tokens only (joined by underscores, hyphens turned into underscores), the
\* parameter names appearing only as keyword arguments; /messages/{id} with
\* get and no body gives the id assignment, a retrieve call on 'messages'
\* with id as keyword argument, and the print line.
C5_LiteralTokensOnly ==
    Rendered =>
        /\ LET ls == LinesOf(ret[1])
           IN  \A i \in CallLines(ls) : CallObject(ls[i]) = LiteralIdentifier(ArgPath)
        /\ (args.method = JStr("get") /\ args.path = JStr("/messages/{id}")
            /\ ArgBody = <<>>)
           => ret[1] = "id = 'your_id'\nresponse = telnyx.messages.retrieve(id=id)\nprint(response)"

\* C6: a non-empty body mapping gives one 'params = {' block with exactly one
\* entry per body key, in order, a textual value quoted and any other value in
\* its native form, and the invocation passes **params after the keyword
\* arguments of the path parameters, alone when the path has no parameter;
\* an absent or empty body gives no params block and no spread.
C6_Native(v) ==
    CASE v.t = "int"      -> ToString(v.n)
      [] v.t = "bool"     -> IF v.b THEN "True" ELSE "False"
      [] v.t = "NoneType" -> "None"

C6_Entry(item) ==
    IF item[2].t = "str"
    THEN "    " \o item[1] \o "='" \o item[2].s \o "'"
    ELSE "    " \o item[1] \o "=" \o C6_Native(item[2])

C6_Kwargs(names) ==
    Join(", ", [i \in 1..Len(names) |-> names[i] \o "=" \o names[i]])

C6_BodyParams ==
    Rendered =>
        LET ls == LinesOf(ret[1])
            opens == {i \in 1..Len(ls) : ls[i] = "params = {"}
            n == Len(ArgBody)
            calls == CallLines(ls)
            segs == Segments(ArgPath)
            names == WrappedNames(ArgPath)
        IN  IF ArgBody # <<>>
            THEN /\ Cardinality(opens) = 1
                 /\ \A k \in opens :
                       /\ k + n + 1 <= Len(ls)
                       /\ \A i \in 1..n : ls[k + i] = C6_Entry(ArgBody[i])
                       /\ ls[k + n + 1] = "}"
                       /\ \A i \in calls : i > k + n + 1
                 /\ \A i \in calls :
                       /\ EndsWith(ls[i], "**params)")
                       /\ ~ Contains("{", ArgPath) => EndsWith(ls[i], "(**params)")
                       /\ (WellFormed(ArgPath) /\ names # <<>>)
                          => EndsWith(ls[i], "(" \o C6_Kwargs(names) \o ", **params)")
                 /\ (\E j \in 1..Len(segs) : segs[j] # "" /\ BraceFree(segs[j]))
                    => calls # {}
            ELSE /\ opens = {}
                 /\ \A i \in 1..Len(ls) : ~ Contains("**params", ls[i])

C6_Witness ==
    /\ Rendered
    /\ args.method = JStr("POST") /\ args.path = JStr("/messages/{id}")
    /\ ArgBody = << <<"to", JStr("+1555")>>, <<"n", JNum(30)>> >>
    /\ ret[1] = "id = 'your_id'\nparams = {\n    to='+1555'\n    n=30\n}\n"
                \o "response = telnyx.messages_id.create(id=id, **params)\nprint(response)"

\* C10: every snippet rendered without error binds 'response' before it
\* displays it: exactly one 'response = telnyx.<object>.<method>(...)' line,
\* immediately before the final 'print(response)' line.
C10_ResponseBound ==
    Rendered =>
        LET ls == LinesOf(ret[1])
        IN  /\ Len(ls) >= 2
            /\ ls[Len(ls)] = "print(response)"
            /\ CallLines(ls) = {Len(ls) - 1}

(***************************************************************************)
(* Properties of the batch driver, stated for Spec and FairSpec.           *)
(***************************************************************************)
OutOf(t) == output_file[t]
Usable(t) == files[t].exists /\ files[t].readable /\ files[t].writable
Malformed(t) == Usable(t) /\ ~ files[t].content.json

\* the tasks whose write to path o completed, in order of completion
WritersOf(o) == SelectSeq(wlog, LAMBDA t : OutOf(t) = o)

\* C3: a second run of main on the same sample files and corpus leaves every
\* output file with the bytes the first run left, whatever the scheduling,
\* also when two sample files share an output file name.
C3_RerunIdentical ==
    (run = 2 /\ main_pc = "returned") => fs = fs1

\* C7: when two sample files map to one output path, after both tasks have
\* finished the file holds exactly the page of the task whose write
\* completed last, never a mixture of the two pages.
C7_LastWriteWins ==
    main_pc = "returned" =>
        \A o \in OutPaths :
            Len(WritersOf(o)) >= 2 =>
                fs[o].data = task[WritersOf(o)[Len(WritersOf(o))]].buf

\* C4: a readable sample file that is not JSON still gets its page, the
\* standard header followed by one commented error line, its task ends as a
\* success returning the output path, and every other sample file's task
\* still runs and writes its own page.
C4_ErrorLine(page) ==
    LET prefix == STANDARD_HEADER \o "\n\n"
        body == SubSeq(page, Len(prefix) + 1, Len(page))
    IN  /\ StartsWith(page, prefix)
        /\ StartsWith(body, "# Error generating SDK code: ")
        /\ ~ Contains("\n", body)

C4_OwnPage(t) ==
    IF files[t].content = SampleList
    THEN STANDARD_HEADER \o "\n\nresponse = telnyx.messages.list()\nprint(response)"
    ELSE STANDARD_HEADER \o "\n\nparams = {\n    to='+1555'\n}\n"
         \o "response = telnyx.messages.create(**params)\nprint(response)"

C4_MalformedIsolated ==
    \A t \in FileIds :
        Malformed(t) =>
            /\ task[t].status # "failed"
            /\ task[t].status = "done" =>
                  /\ task[t].result = OutOf(t)
                  /\ C4_ErrorLine(task[t].buf)
                  /\ fs[OutOf(t)].exists
            /\ main_pc = "returned" =>
                  /\ task[t].status = "done"
                  /\ (\A u \in FileIds : (u # t /\ files[u].exists) => OutOf(u) # OutOf(t))
                     => fs[OutOf(t)].data = task[t].buf
                  /\ \A u \in FileIds \ {t} :
                        (Usable(u) /\ files[u].content.json) =>
                            /\ task[u].status = "done"
                            /\ task[u].result = OutOf(u)
                            /\ task[u].buf = C4_OwnPage(u)

C4_Witness ==
    /\ main_pc = "returned"
    /\ Malformed(3) /\ task[3].status = "done"
    /\ fs[OutOf(3)].data =
          STANDARD_HEADER \o "\n\n# Error generating SDK code: " \o JSONDecodeError
    /\ Usable(1) /\ files[1].content = SampleCreate /\ task[1].status = "done"
    /\ ~ files[2].readable /\ task[2].status = "failed"

\* C8: each discovered sample file is submitted exactly once, every submitted
\* task eventually reaches done or failed, a failing task never keeps a
\* sibling from reaching done, and main returns only after every submitted
\* task has reached done or failed.
C8_Safety ==
    /\ \A t \in FileIds : submits[t] <= 1
    /\ main_pc \in {"wait", "returned"} =>
          \A t \in FileIds : submits[t] = IF files[t].exists THEN 1 ELSE 0
    /\ main_pc = "returned" =>
          \A t \in FileIds :
              files[t].exists =>
                  /\ Terminal(t)
                  /\ Usable(t) => task[t].status = "done"

C8_EveryTaskEnds ==
    /\ []C8_Safety
    /\ \A t \in FileIds : (task[t].status = "pending") ~> Terminal(t)
    /\ <>(main_pc = "returned")

C8_Witness ==
    /\ main_pc = "returned"
    /\ \E t, u, v \in FileIds :
          /\ ~ files[t].readable /\ task[t].status = "failed"
          /\ ~ files[u].writable /\ task[u].status = "failed"
          /\ Usable(v) /\ task[v].status = "done"

====
